---- MODULE Spec2Model ----
(***************************************************************************)
(* Model of the Forchilacraft trade bot (src/bot.py): the /pay, /balance   *)
(* and /price command handlers, the accounts index, balance parsing and    *)
(* amount formatting, the Google Form submission and the confirmation      *)
(* poll.  The spreadsheet and the form pipeline are the environment.       *)
(*                                                                         *)
(* Text is modelled as sequences of one-character strings.  Decimals are   *)
(* records: [k |-> "num", c |-> cents] for a finite value quantized to     *)
(* 0.01, [k |-> "nan", c |-> 0] for a quiet NaN.  Raw decimal text is      *)
(* [k |-> kind, m |-> thousandths] (kind "num", "junk", "nan", "inf",      *)
(* "empty"), so that both quantizations (half-up, half-even) have ties.    *)
(***************************************************************************)
EXTENDS Integers, Sequences, FiniteSets, TLC

VARIABLES
    ledger,     \* rows of the accounts sheet, in source row order
    cfg,        \* FORM_ID / ENTRY_USER / ENTRY_SUM: set (TRUE) or empty
    pending,    \* transfers the form accepted that the sheet has not applied,
                \* oldest first
    hasty,      \* history: the senders who have submitted a transfer while
                \* an earlier one of theirs was not yet applied
    budget,     \* how many more transfers the form accepts in this run
    pc,         \* "idle" | "poll" | "reply" | "done": position of the handler
    h,          \* the running handler's frame: inputs, locals, replies, POSTs
    prices      \* rows of the prices sheet, in source row order

vars == <<ledger, cfg, pending, hasty, budget, pc, h, prices>>

\* ------------------------------------------------------------------ bounds

MaxRows == 2
MaxPays == 2
MaxPriceRows == 3

\* for _ in range(7)
PollAttempts == 7
\* if len(sugest) >= 5: break
MaxSuggest == 5

\* -------------------------------------------------------------- text helpers

RECURSIVE LStrip(_, _)
LStrip(s, ch) ==
    IF s # <<>> /\ Head(s) = ch THEN LStrip(Tail(s), ch) ELSE s

RECURSIVE RStrip(_, _)
RStrip(s, ch) ==
    IF s # <<>> /\ s[Len(s)] = ch THEN RStrip(SubSeq(s, 1, Len(s) - 1), ch) ELSE s

LowerChar(ch) ==
    CASE ch = "A" -> "a"
      [] ch = "B" -> "b"
      [] ch = "C" -> "c"
      [] OTHER -> ch

Lower(s) == [i \in 1..Len(s) |-> LowerChar(s[i])]

\* (u or "").strip().lstrip("@").lower(); None is the empty text
normalize_username(u) == Lower(LStrip(RStrip(LStrip(u, " "), " "), "@"))

\* normalize_username(u) if u else ""
get_sender_username_from_tg(u) ==
    IF u = <<>> THEN <<>> ELSE normalize_username(u)

\* ------------------------------------------------------------------ decimals

Num(c) == [k |-> "num", c |-> c]
NaN == [k |-> "nan", c |-> 0]
Zero == Num(0)

Abs(n) == IF n < 0 THEN -n ELSE n
Sign(n) == IF n < 0 THEN -1 ELSE 1

\* quantize(Decimal("0.01"), rounding=ROUND_HALF_UP) of m thousandths, in cents
QuantizeHalfUp(m) == Sign(m) * ((Abs(m) + 5) \div 10)

\* quantize(Decimal("0.01")) under the default context (ROUND_HALF_EVEN)
QuantizeHalfEven(m) ==
    LET q == Abs(m) \div 10
        r == Abs(m) % 10
        up == r > 5 \/ (r = 5 /\ q % 2 = 1)
    IN Sign(m) * (IF up THEN q + 1 ELSE q)

\* parse_balance: None, '', '.' and anything Decimal() or quantize() rejects
\* (text, Infinity) give 0; a quiet NaN passes through quantize unchanged.
parse_balance(value) ==
    CASE value.k = "none" -> Zero
      [] value.k = "empty" -> Zero
      [] value.k = "junk" -> Zero
      [] value.k = "inf" -> Zero
      [] value.k = "nan" -> NaN
      [] OTHER -> Num(QuantizeHalfEven(value.m))

DigitChars == <<"0", "1", "2", "3", "4", "5", "6", "7", "8", "9">>

RECURSIVE Digits(_)
Digits(n) ==
    IF n < 10 THEN <<DigitChars[n + 1]>>
    ELSE Digits(n \div 10) \o <<DigitChars[(n % 10) + 1]>>

SignText(c) == IF c < 0 THEN <<"-">> ELSE <<>>

\* format_amount: "0" for zero; for an integral value the digits of
\* q.normalize() with rstrip('0').rstrip('.') applied to them; else "%.2f".
format_amount(d) ==
    IF d.k = "nan" THEN <<"N", "a", "N">>
    ELSE IF d.c = 0 THEN <<"0">>
    ELSE IF d.c % 100 = 0
         THEN LET s == RStrip(RStrip(SignText(d.c) \o Digits(Abs(d.c) \div 100), "0"), ".")
              IN IF s # <<>> THEN s ELSE <<"0">>
    ELSE SignText(d.c) \o Digits(Abs(d.c) \div 100) \o <<".">>
         \o <<DigitChars[((Abs(d.c) % 100) \div 10) + 1], DigitChars[(Abs(d.c) % 10) + 1]>>

\* ------------------------------------------------------------ accounts sheet

NoCell == [k |-> "none", m |-> 0]

\* What one GET of the accounts CSV gives: ok = FALSE when requests.get or
\* raise_for_status raises; col_username / col_balance say whether _pick_header
\* finds the column among the headers of the fetched rows.
Fetch(ok, rows, col_username, col_balance) ==
    [ok |-> ok, rows |-> rows, col_username |-> col_username, col_balance |-> col_balance]

NoFetch == Fetch(FALSE, <<>>, FALSE, FALSE)

\* the loop of load_accounts_index: users_by_username[u] = r for every row
\* whose normalized username cell is not empty, in row order
RECURSIVE users_by_username(_)
users_by_username(rows) ==
    IF rows = <<>> THEN <<>>
    ELSE LET prev == users_by_username(SubSeq(rows, 1, Len(rows) - 1))
             r == rows[Len(rows)]
             u == normalize_username(r.u)
         IN IF u # <<>>
            THEN [key \in (DOMAIN prev) \cup {u} |-> IF key = u THEN r ELSE prev[key]]
            ELSE prev

\* load_accounts_index: raises when the fetch fails, and when no username
\* column is found (always so for a sheet without data rows: header = []).
load_accounts_index(f) ==
    IF ~f.ok \/ f.rows = <<>> \/ ~f.col_username
    THEN [raised |-> TRUE, users |-> <<>>, col_balance |-> FALSE]
    ELSE [raised |-> FALSE, users |-> users_by_username(f.rows),
          col_balance |-> f.col_balance]

\* users.get(key): <<>> for None, <<row>> for a row
UsersGet(users, key) ==
    IF key \in DOMAIN users THEN <<users[key]>> ELSE <<>>

\* row.get(bal_col) if bal_col else None
BalanceCell(row, col_balance) == IF col_balance THEN row.bal ELSE NoCell

\* ------------------------------------------------------------------ the form

FormConfigured(c) == c.FORM_ID /\ c.ENTRY_USER /\ c.ENTRY_SUM

\* r.status_code in (200, 302); an exception of requests.post is "error"
StatusOk(status) == status \in {"200", "302"}

\* submit_to_google_form: no POST without configuration, else one POST of
\* {ENTRY_USER: username, ENTRY_SUM: format_amount(amount)}
submit_to_google_form(c, username, amount, status) ==
    IF ~FormConfigured(c)
    THEN [ok |-> FALSE, posted |-> <<>>]
    ELSE [ok |-> StatusOk(status),
          posted |-> <<[user |-> username, sum |-> format_amount(amount)]>>]

\* ------------------------------------------------------------ handler frame

NoFrame ==
    [cmd |-> "none", args_ok |-> FALSE, sender_raw |-> <<>>, recipient_raw |-> <<>>,
     amount_raw |-> NoCell, status |-> "none", snap |-> NoFetch,
     sender |-> <<>>, recipient |-> <<>>, amount |-> Zero, sender_bal |-> Zero,
     stages |-> <<>>, outcome |-> "none", replies |-> 0, posted |-> <<>>,
     polls |-> 0, new_sender_balance |-> <<>>, shown |-> <<>>,
     query |-> <<>>, lines |-> <<>>, seen |-> FALSE]

\* await update.message.reply_text(...); return
Reply(c, outcome) == [c EXCEPT !.outcome = outcome, !.replies = @ + 1]

\* an exception leaves the handler: nothing is sent
Raise(c) == [c EXCEPT !.outcome = "Crash"]

At(c, stage) == [c EXCEPT !.stages = Append(@, stage)]

\* ------------------------------------------------------------------ cmd_pay
\* One operator per check of cmd_pay, last check first; each runs its check
\* and hands the frame to the next one.

\* ok = submit_to_google_form(recipient, amount); if not ok: reply, return
PaySubmit(c, fc) ==
    LET r == submit_to_google_form(fc, c.recipient, c.amount, c.status)
        d == [At(c, "submit") EXCEPT !.posted = r.posted]
    IN IF ~r.ok THEN Reply(d, "SubmitFailed")
       ELSE [d EXCEPT !.outcome = "Polling"]

\* if not FORM_ID or not ENTRY_USER or not ENTRY_SUM
PayConfig(c, fc) ==
    IF ~FormConfigured(fc) THEN Reply(At(c, "config"), "NotConfigured")
    ELSE PaySubmit(At(c, "config"), fc)

\* the comparison turned round
InsufficientFunds_reversed(sender_bal, amount) == amount.c < sender_bal.c

\* the comparison left out
InsufficientFunds_off(sender_bal, amount) == FALSE

\* sender_bal < amount; the comparison raises InvalidOperation on a NaN
InsufficientFunds(sender_bal, amount) == sender_bal.c < amount.c

PayBalance(c, fc, sender_row, col_balance) ==
    LET bal == parse_balance(BalanceCell(sender_row, col_balance))
        d == [At(c, "balance") EXCEPT !.sender_bal = bal]
    IN IF bal.k = "nan" THEN Raise(d)
       ELSE IF InsufficientFunds(bal, c.amount)
            THEN [Reply(d, "InsufficientFunds") EXCEPT !.shown = format_amount(bal)]
       ELSE PayConfig(d, fc)

\* recipient_row = users.get(recipient)
PayRecipientRow(c, fc, idx, sender_row) ==
    LET row == UsersGet(idx.users, c.recipient)
    IN IF row = <<>> THEN Reply(At(c, "recipient_row"), "RecipientNotFound")
       ELSE PayBalance(At(c, "recipient_row"), fc, sender_row, idx.col_balance)

\* sender_row = users.get(sender)
PaySenderRow(c, fc, idx) ==
    LET row == UsersGet(idx.users, c.sender)
    IN IF row = <<>> THEN Reply(At(c, "sender_row"), "SenderNotFound")
       ELSE PayRecipientRow(At(c, "sender_row"), fc, idx, row[1])

\* users, _, cols = load_accounts_index(), in try/except
PayLoad(c, fc) ==
    LET idx == load_accounts_index(c.snap)
    IN IF idx.raised THEN Reply(At(c, "load"), "LedgerError")
       ELSE PaySenderRow(At(c, "load"), fc, idx)

\* Decimal(amount_raw.replace(",", ".")) in try/except; amount <= 0 (raises on
\* a NaN); amount.quantize(0.01, ROUND_HALF_UP) (raises on Infinity)
PayAmount(c, fc) ==
    LET a == c.amount_raw
        d == At(c, "amount")
    IN CASE a.k = "junk" -> Reply(d, "InvalidAmount")
         [] a.k = "nan" -> Raise(d)
         [] a.k = "inf" -> Raise(d)
         [] OTHER ->
              IF a.m <= 0 THEN Reply(d, "InvalidAmount")
              ELSE PayLoad([d EXCEPT !.amount = Num(QuantizeHalfUp(a.m))], fc)

\* the username check left to the lookup in the sheet
PaySender_unchecked(c, fc) ==
    PayAmount([At(c, "sender") EXCEPT
                   !.sender = get_sender_username_from_tg(c.sender_raw),
                   !.recipient = normalize_username(c.recipient_raw)], fc)

\* sender = get_sender_username_from_tg(update); recipient = normalize_username(..)
PaySender(c, fc) ==
    LET s == get_sender_username_from_tg(c.sender_raw)
        d == [At(c, "sender") EXCEPT !.sender = s]
    IN IF s = <<>> THEN Reply(d, "SenderUnresolved")
       ELSE PayAmount([d EXCEPT !.recipient = normalize_username(c.recipient_raw)], fc)

\* if len(args) < 2
PayArgs(c, fc) ==
    IF ~c.args_ok THEN Reply(At(c, "args"), "Usage")
    ELSE PaySender(At(c, "args"), fc)

InSeq(x, seq) == \E i \in 1..Len(seq) : seq[i] = x

\* cmd_pay up to the poll loop (lines 288-341).  The frame keeps the fetched
\* sheet and the form's answer only when the handler got as far as asking.
cmd_pay(args_ok, sender_raw, recipient_raw, amount_raw, f, status, fc) ==
    LET c == PayArgs([NoFrame EXCEPT !.cmd = "pay", !.args_ok = args_ok,
                            !.sender_raw = sender_raw,
                            !.recipient_raw = IF args_ok THEN recipient_raw ELSE <<>>,
                            !.amount_raw = IF args_ok THEN amount_raw ELSE NoCell,
                            !.status = status, !.snap = f], fc)
    IN [c EXCEPT !.snap = IF InSeq("load", c.stages) THEN f ELSE NoFetch,
                 !.status = IF c.posted # <<>> THEN status ELSE "none"]

\* one iteration of `for _ in range(7)`: a fresh load_accounts_index, the
\* sender's row looked up in it; any exception is swallowed
PollOnce(c, f) ==
    LET idx == load_accounts_index(f)
        row == IF idx.raised THEN <<>> ELSE UsersGet(idx.users, c.sender)
    IN IF row # <<>>
       THEN [c EXCEPT !.polls = @ + 1,
                      !.new_sender_balance =
                          <<parse_balance(BalanceCell(row[1], idx.col_balance))>>]
       ELSE [c EXCEPT !.polls = @ + 1]

\* range(7) taken as 0..7
PollAgain_one_more(c) == c.new_sender_balance = <<>> /\ c.polls <= PollAttempts

\* the loop goes on while no balance was read and range(7) is not exhausted
PollAgain(c) == c.new_sender_balance = <<>> /\ c.polls < PollAttempts

\* the reply after the loop (lines 357-366)
PayConfirm(c) ==
    IF c.new_sender_balance = <<>>
    THEN [Reply(c, "Submitted") EXCEPT !.shown = format_amount(c.amount)]
    ELSE [Reply(c, "Confirmed") EXCEPT !.shown = format_amount(c.new_sender_balance[1])]

\* -------------------------------------------------------------- cmd_balance

cmd_balance(sender_raw, f) ==
    LET c == [NoFrame EXCEPT !.cmd = "balance", !.sender_raw = sender_raw,
                             !.sender = get_sender_username_from_tg(sender_raw)]
        idx == load_accounts_index(f)
        row == UsersGet(idx.users, c.sender)
    IN IF c.sender = <<>> THEN Reply(c, "SenderUnresolved")
       ELSE IF idx.raised THEN Reply([c EXCEPT !.snap = f], "LedgerError")
       ELSE IF row = <<>> THEN Reply([c EXCEPT !.snap = f], "SenderNotFound")
       ELSE LET bal == parse_balance(BalanceCell(row[1], idx.col_balance))
            IN [Reply([c EXCEPT !.snap = f], "Balance") EXCEPT
                    !.sender_bal = bal, !.shown = format_amount(bal)]

\* ---------------------------------------------------------------- cmd_price
\* Item names and queries are sequences of letters, each letter standing for
\* one word of the sheet ("n" for "ender", "p" for "zhemchug", "k" for "kraya",
\* "z" for "zloveshchaya", "o" for "butylochka", "b" for "butylka"), with "N",
\* "P", "K" their capitalised forms, "yo"/"ye" the letters U+0451/U+0435, and
\* " ", "nbsp", "-", "_" the separators.

NormChar(ch) ==
    CASE ch = "N" -> "n"
      [] ch = "P" -> "p"
      [] ch = "K" -> "k"
      [] ch = "yo" -> "ye"
      [] OTHER -> ch

Separators == {" ", "nbsp", "-", "_"}

RECURSIVE DropSeparators(_)
DropSeparators(s) ==
    IF s = <<>> THEN <<>>
    ELSE IF Head(s) \in Separators THEN DropSeparators(Tail(s))
    ELSE <<Head(s)>> \o DropSeparators(Tail(s))

\* _norm: NBSP variants to spaces, lower(), yo to ye, separators dropped
_norm(s) == DropSeparators([i \in 1..Len(s) |-> NormChar(s[i])])

\* ALIASES, keyed by normalized query
ALIASES == [key \in {<<"n", "p">>, <<"z", "o">>} |->
               IF key = <<"n", "p">> THEN <<"p", "k">> ELSE <<"z", "b">>]

\* qn = _norm(query_raw); if qn in ALIASES: qn = ALIASES[qn]
Aliased(qn) == IF qn \in DOMAIN ALIASES THEN ALIASES[qn] ELSE qn

\* qn in nn
Contains(nn, qn) ==
    \E i \in 0..(Len(nn) - Len(qn)) : SubSeq(nn, i + 1, i + Len(qn)) = qn

\* name = str(r.get(name_col, "")).strip()
ItemName(r) == RStrip(LStrip(r.name, " "), " ")

\* the first loop: the first row whose normalized name equals qn, as <<row>>
RECURSIVE ExactMatch(_, _)
ExactMatch(rows, qn) ==
    IF rows = <<>> THEN <<>>
    ELSE IF _norm(ItemName(Head(rows))) = qn THEN <<Head(rows)>>
    ELSE ExactMatch(Tail(rows), qn)

\* the second loop: rows whose normalized name contains qn, in row order,
\* until five are collected
RECURSIVE Suggestions(_, _, _)
Suggestions(rows, qn, sugest) ==
    IF rows = <<>> THEN sugest
    ELSE IF qn # <<>> /\ Contains(_norm(ItemName(Head(rows))), qn)
         THEN IF Len(sugest) + 1 >= MaxSuggest THEN Append(sugest, Head(rows))
              ELSE Suggestions(Tail(rows), qn, Append(sugest, Head(rows)))
    ELSE Suggestions(Tail(rows), qn, sugest)

\* the two loops in the other order
PriceLookup_substring_first(c, rows, qn) ==
    LET exact == ExactMatch(rows, qn)
        sugest == Suggestions(rows, qn, <<>>)
    IN IF sugest # <<>> THEN [Reply(c, "Suggest") EXCEPT !.lines = sugest]
       ELSE IF exact # <<>> THEN [Reply(c, "Exact") EXCEPT !.lines = exact]
       ELSE Reply(c, "NotFound")

\* the lookup of cmd_price (lines 258-277) given the fetched rows
PriceLookup(c, rows, qn) ==
    LET exact == ExactMatch(rows, qn)
        sugest == Suggestions(rows, qn, <<>>)
    IN IF exact # <<>> THEN [Reply(c, "Exact") EXCEPT !.lines = exact]
       ELSE IF sugest # <<>> THEN [Reply(c, "Suggest") EXCEPT !.lines = sugest]
       ELSE Reply(c, "NotFound")

\* cmd_price; f is what load_prices_table's GET gives: ok = FALSE when it
\* raises (nothing catches it), col_name / col_price whether _pick_header finds
\* the columns (never for a sheet without data rows)
cmd_price(query_raw, f) ==
    LET c == [NoFrame EXCEPT !.cmd = "price", !.query = query_raw]
        qn == Aliased(_norm(RStrip(LStrip(query_raw, " "), " ")))
    IN IF RStrip(LStrip(query_raw, " "), " ") = <<>> THEN Reply(c, "Usage")
       ELSE IF ~f.ok THEN Raise(c)
       ELSE IF f.rows = <<>> \/ ~f.col_name \/ ~f.col_price THEN Reply(c, "ColumnsNotFound")
       ELSE PriceLookup(c, f.rows, qn)

\* ------------------------------------------------------------- environment

SenderNames == {<<>>, <<"A">>, <<"b">>}
RecipientArgs == {<<"@", "A">>, <<"b">>, <<"c">>}
UsernameCells == {<<"a">>, <<"@", "A", " ">>, <<"b">>}
BalanceCells == {[k |-> "num", m |-> 5000], [k |-> "num", m |-> 20005],
                 [k |-> "nan", m |-> 0]}
AmountArgs == {[k |-> "junk", m |-> 0], [k |-> "nan", m |-> 0], [k |-> "inf", m |-> 0]}
              \cup {[k |-> "num", m |-> m] : m \in {0, 4, 5, 5000, 10000, 12500}}
Statuses == {"200", "302", "500", "error"}
Configs == {[FORM_ID |-> TRUE, ENTRY_USER |-> TRUE, ENTRY_SUM |-> TRUE],
            [FORM_ID |-> FALSE, ENTRY_USER |-> TRUE, ENTRY_SUM |-> TRUE]}

AccountRows == [u : UsernameCells, bal : BalanceCells]

SeqsUpTo(S, n) == UNION {[1..k -> S] : k \in 0..n}

\* what a GET of the accounts sheet can give while it holds `rows`
FetchResults(rows) ==
    {NoFetch} \cup {Fetch(TRUE, rows, cu, cb) : cu \in BOOLEAN, cb \in BOOLEAN}

\* the sheet applies an accepted transfer: the amount leaves every row of the
\* sender and enters every row of the recipient; cells that are no number stay
SettleCell(cell, delta) ==
    IF cell.k = "num" THEN [k |-> "num", m |-> cell.m + 10 * delta] ELSE cell

SettleRow(r, t) ==
    LET u == normalize_username(r.u)
        delta == (IF u = t.recipient THEN t.amount ELSE 0)
                 - (IF u = t.sender THEN t.amount ELSE 0)
    IN [r EXCEPT !.bal = SettleCell(@, delta)]

ItemNames == {<<"p", "k">>, <<"N", " ", "p">>, <<"n", "p", "k">>, <<" ", "P", "-", "k", "yo">>}
PriceCells == {"10", "20"}
PriceRows == [name : ItemNames, price : PriceCells]
Queries == {<<" ">>, <<"n", " ", "p">>, <<"P", "k">>, <<"p", "_", "k", "ye">>, <<"k">>, <<"z">>}

PriceFetchResults(rows) ==
    {[ok |-> FALSE, rows |-> <<>>, col_name |-> FALSE, col_price |-> FALSE]}
    \cup {[ok |-> TRUE, rows |-> rows, col_name |-> cn, col_price |-> cp] :
             cn \in BOOLEAN, cp \in BOOLEAN}

\* how many accepted transfers of sender `key` the sheet has not applied
RECURSIVE UnsettledCount(_, _)
UnsettledCount(ts, key) ==
    IF ts = <<>> THEN 0
    ELSE (IF Head(ts).sender = key THEN 1 ELSE 0) + UnsettledCount(Tail(ts), key)

\* history for the checks: the fetched sheet is readable and has a row whose
\* username cell normalizes to key
SheetHolds(f, key) ==
    /\ f.ok /\ f.col_username
    /\ \E i \in 1..Len(f.rows) : normalize_username(f.rows[i].u) = key

\* ------------------------------------------------------------------ actions

Init ==
    /\ ledger \in SeqsUpTo(AccountRows, MaxRows)
    /\ cfg \in Configs
    /\ pending = <<>>
    /\ hasty = {}
    /\ budget = 1
    /\ pc = "idle"
    /\ h = NoFrame
    /\ prices = <<>>

\* runs of several transfers over one plain sheet, the form configured
PlainSheet == <<[u |-> <<"a">>, bal |-> [k |-> "num", m |-> 5000]],
                [u |-> <<"b">>, bal |-> [k |-> "num", m |-> 20005]]>>

LedgerInit ==
    /\ ledger = PlainSheet
    /\ cfg = [FORM_ID |-> TRUE, ENTRY_USER |-> TRUE, ENTRY_SUM |-> TRUE]
    /\ pending = <<>>
    /\ hasty = {}
    /\ budget = MaxPays
    /\ pc = "idle"
    /\ h = NoFrame
    /\ prices = <<>>

\* the arguments of one /pay message; with fewer than two arguments the
\* handler reads neither of them, nor the sender
PayRequests ==
    {[args_ok |-> FALSE, sender_raw |-> <<>>, recipient_raw |-> <<>>, amount_raw |-> NoCell]}
    \cup [args_ok : {TRUE}, sender_raw : SenderNames, recipient_raw : RecipientArgs,
          amount_raw : AmountArgs]

\* /pay: lines 288-341 run in one piece; an accepted POST starts the poll.
\* The form's answer is drawn only when the handler does POST.
Pay ==
    /\ pc = "idle"
    /\ budget > 0
    /\ \E q \in PayRequests, f \in FetchResults(ledger) :
          LET try == cmd_pay(q.args_ok, q.sender_raw, q.recipient_raw, q.amount_raw,
                             f, "200", cfg)
          IN \E status \in (IF try.posted # <<>> THEN Statuses ELSE {"none"}) :
               LET c == IF status \in {"200", "none"} THEN try
                        ELSE cmd_pay(q.args_ok, q.sender_raw, q.recipient_raw,
                                     q.amount_raw, f, status, cfg)
                   accepted == c.posted # <<>> /\ StatusOk(c.status)
               IN /\ h' = c
                  /\ pc' = IF c.outcome = "Polling" THEN "poll" ELSE "done"
                  /\ pending' = IF accepted
                                 THEN Append(pending,
                                        [sender |-> c.sender,
                                         recipient |-> c.recipient,
                                         amount |-> c.amount.c])
                                 ELSE pending
                  /\ hasty' = IF accepted /\ UnsettledCount(pending, c.sender) > 0
                               THEN hasty \cup {c.sender}
                               ELSE hasty
                  /\ budget' = IF accepted THEN budget - 1 ELSE budget
    /\ UNCHANGED <<ledger, cfg, prices>>

\* one iteration of the confirmation loop, then time.sleep(0.9)
Poll ==
    /\ pc = "poll"
    /\ \E f \in FetchResults(ledger) :
          LET c == PollOnce(h, f)
          IN /\ h' = [c EXCEPT !.seen = @ \/ SheetHolds(f, h.sender)]
             /\ pc' = IF PollAgain(c) THEN "poll" ELSE "reply"
    /\ UNCHANGED <<ledger, cfg, pending, budget, hasty, prices>>

\* the reply that ends a /pay whose POST was accepted
Confirm ==
    /\ pc = "reply"
    /\ h' = PayConfirm(h)
    /\ pc' = "done"
    /\ UNCHANGED <<ledger, cfg, pending, budget, hasty, prices>>

\* /balance
Balance ==
    /\ pc = "idle"
    /\ \E sender_raw \in SenderNames, f \in FetchResults(ledger) :
          h' = cmd_balance(sender_raw, f)
    /\ pc' = "done"
    /\ UNCHANGED <<ledger, cfg, pending, budget, hasty, prices>>

\* the form pipeline applies the oldest accepted transfer to the sheet
Settle ==
    /\ pending # <<>>
    /\ pc \in {"idle", "poll"}
    /\ ledger' = [i \in 1..Len(ledger) |-> SettleRow(ledger[i], Head(pending))]
    /\ pending' = Tail(pending)
    /\ UNCHANGED <<cfg, budget, pc, h, hasty, prices>>

\* somebody deletes the last row of the sheet while a /pay is polling
DeleteRow ==
    /\ pc = "poll"
    /\ ledger # <<>>
    /\ ledger' = SubSeq(ledger, 1, Len(ledger) - 1)
    /\ UNCHANGED <<cfg, pending, budget, pc, h, hasty, prices>>

\* the handler has returned; its frame is gone
Return ==
    /\ pc = "done"
    /\ pc' = "idle"
    /\ h' = NoFrame
    /\ UNCHANGED <<ledger, cfg, pending, budget, hasty, prices>>

Next == Pay \/ Poll \/ Confirm \/ Balance \/ Return \/ Settle \/ DeleteRow

Spec == Init /\ [][Next]_vars

LedgerSpec == LedgerInit /\ [][Next]_vars

\* runs of /price over a prices sheet
PriceInit ==
    /\ prices \in SeqsUpTo(PriceRows, MaxPriceRows)
    /\ ledger = <<>>
    /\ cfg = [FORM_ID |-> TRUE, ENTRY_USER |-> TRUE, ENTRY_SUM |-> TRUE]
    /\ pending = <<>>
    /\ hasty = {}
    /\ budget = 0
    /\ pc = "idle"
    /\ h = NoFrame

\* /price
Price ==
    /\ pc = "idle"
    /\ \E query_raw \in Queries, f \in PriceFetchResults(prices) :
          h' = cmd_price(query_raw, f)
    /\ pc' = "done"
    /\ UNCHANGED <<ledger, cfg, pending, budget, hasty, prices>>

PriceNext == Price \/ Return

PriceSpec == PriceInit /\ [][PriceNext]_vars

\* ================================================================== claims
\* What the checks below read off a /pay frame, from its inputs and the sheet
\* it fetched rather than from its locals.

PayFrame == h.cmd = "pay"
Finished == pc = "done"

\* the amount argument is a finite decimal greater than zero
PositiveDecimal(a) == a.k = "num" /\ a.m > 0

\* the requested amount in cents: two fractional digits, ties away from zero
Requested(a) == (a.m + 5) \div 10

SenderKey == normalize_username(h.sender_raw)
RecipientKey == normalize_username(h.recipient_raw)

\* the index the handler built from the sheet it fetched
SnapIndex == load_accounts_index(h.snap)
SenderRow == UsersGet(SnapIndex.users, SenderKey)
RecipientRow == UsersGet(SnapIndex.users, RecipientKey)
SenderBalance == parse_balance(BalanceCell(SenderRow[1], SnapIndex.col_balance))

\* the sender's balance was parsed from the fetched sheet and is a number
BalanceRead ==
    /\ PayFrame /\ h.args_ok /\ SenderKey # <<>> /\ PositiveDecimal(h.amount_raw)
    /\ ~SnapIndex.raised /\ SenderRow # <<>>
    /\ SenderBalance.k = "num"

Accepted == h.posted # <<>> /\ StatusOk(h.status)

\* ---- C1

C1_Less == BalanceRead /\ SenderBalance.c < Requested(h.amount_raw)

\* C1, as claimed: whenever the sender's balance parsed from the fetched sheet
\* is less than the quantized amount, the outcome is InsufficientFunds and no
\* POST was made.
C1_Original == C1_Less => (h.outcome = "InsufficientFunds" /\ h.posted = <<>>)

\* C1, amended: the same, for invocations whose recipient has a row in the
\* fetched sheet (a missing recipient is reported first, also with no POST).
C1_InsufficientFunds ==
    /\ (C1_Less /\ RecipientRow # <<>>)
          => (Finished /\ h.outcome = "InsufficientFunds" /\ h.posted = <<>>
              /\ h.replies = 1)
    /\ C1_Less => h.posted = <<>>

C1_Witness ==
    /\ C1_Less /\ RecipientRow # <<>> /\ h.outcome = "InsufficientFunds"
    /\ h.amount_raw.m = 10000 /\ SenderBalance.c = 500

\* ---- C2

\* C2: every amount handed to the form is the input quantized half-up, is
\* greater than zero and at most the sender's parsed balance; for an input
\* that is not positive after quantization nothing is handed to the form.
C2_AmountSubmitted ==
    /\ (PayFrame /\ h.posted # <<>>)
          => /\ h.amount = Num(Requested(h.amount_raw))
             /\ h.amount.c > 0
             /\ h.amount.c <= SenderBalance.c
    /\ (PayFrame /\ h.args_ok /\ h.amount_raw.k = "num" /\ Requested(h.amount_raw) <= 0)
          => h.posted = <<>>

\* ---- C3

\* the amount with a comma and two fractional digits
CommaAmount(c) ==
    Digits(c \div 100) \o <<",">>
    \o <<DigitChars[((c % 100) \div 10) + 1], DigitChars[(c % 10) + 1]>>

\* C3: a /pay of a positive amount to somebody else that passed every
\* validation and whose POST was answered 200 or 302 made exactly one POST,
\* whose amount field is the quantized amount with a comma and two fractional
\* digits, and ended with one success reply.
C3_SubmittedAmountField ==
    (PayFrame /\ Finished /\ Accepted /\ SenderKey # RecipientKey
     /\ Requested(h.amount_raw) > 0)
       => /\ Len(h.posted) = 1
          /\ h.posted[1].sum = CommaAmount(Requested(h.amount_raw))
          /\ h.outcome \in {"Confirmed", "Submitted"}
          /\ h.replies = 1

\* ---- C4

\* C4: a /pay whose sender and recipient normalize to the same key makes no
\* POST (the refusal the claim names, SelfTransfer, comes before any POST),
\* here for amounts that are positive after quantization.
C4_SelfTransfer ==
    (PayFrame /\ h.args_ok /\ SenderKey # <<>> /\ SenderKey = RecipientKey
     /\ PositiveDecimal(h.amount_raw) /\ Requested(h.amount_raw) > 0)
       => h.posted = <<>>

\* ---- C5

\* the checks of cmd_pay in the order the handler runs them
CodeOrder == <<"args", "sender", "amount", "load", "sender_row", "recipient_row",
               "balance", "config", "submit">>

\* whether a check passes, from the inputs and the fetched sheet
StagePasses(stage) ==
    CASE stage = "args" -> h.args_ok
      [] stage = "sender" -> get_sender_username_from_tg(h.sender_raw) # <<>>
      [] stage = "amount" -> PositiveDecimal(h.amount_raw)
      [] stage = "load" -> ~SnapIndex.raised
      [] stage = "sender_row" -> SenderRow # <<>>
      [] stage = "recipient_row" -> RecipientRow # <<>>
      [] stage = "balance" ->
            SenderBalance.k = "num" /\ SenderBalance.c >= Requested(h.amount_raw)
      [] stage = "config" -> FormConfigured(cfg)
      [] OTHER -> StatusOk(h.status)

\* whether a failing check raises instead of replying
StageRaises(stage) ==
    \/ stage = "amount" /\ h.amount_raw.k \in {"nan", "inf"}
    \/ stage = "balance" /\ SenderBalance.k = "nan"

FailureOf(stage) ==
    CASE stage = "args" -> "Usage"
      [] stage = "sender" -> "SenderUnresolved"
      [] stage = "amount" -> "InvalidAmount"
      [] stage = "load" -> "LedgerError"
      [] stage = "sender_row" -> "SenderNotFound"
      [] stage = "recipient_row" -> "RecipientNotFound"
      [] stage = "balance" -> "InsufficientFunds"
      [] stage = "config" -> "NotConfigured"
      [] OTHER -> "SubmitFailed"

LastStage == h.stages[Len(h.stages)]

\* C5, as claimed: the amount is parsed before the sender is looked at, so an
\* amount that cannot be parsed is reported as InvalidAmount whoever sends it.
C5_Original ==
    (PayFrame /\ Finished /\ h.args_ok /\ h.amount_raw.k = "junk")
       => h.outcome = "InvalidAmount"

\* C5, amended: the checks run in the order argument count, sender username,
\* amount, sheet load, sender row, recipient row, balance, form configuration,
\* submit; the handler stops at the first check that fails, reports that
\* failure (or raises, where the check raises), runs nothing after it, and
\* POSTs only when every earlier check passed.
C5_StageOrder ==
    PayFrame =>
       /\ h.stages # <<>>
       /\ h.stages = SubSeq(CodeOrder, 1, Len(h.stages))
       /\ \A i \in 1..(Len(h.stages) - 1) : StagePasses(h.stages[i])
       /\ IF StagePasses(LastStage)
          THEN LastStage = "submit" /\ h.outcome \in {"Polling", "Confirmed", "Submitted"}
          ELSE /\ Finished
               /\ h.outcome = IF StageRaises(LastStage) THEN "Crash"
                              ELSE FailureOf(LastStage)
               /\ h.replies = IF StageRaises(LastStage) THEN 0 ELSE 1
       /\ h.posted # <<>> => LastStage = "submit"

C5_Witness ==
    /\ PayFrame /\ Finished /\ h.args_ok
    /\ h.sender_raw = <<>> /\ h.amount_raw.k = "junk"
    /\ h.outcome = "SenderUnresolved" /\ h.stages = <<"args", "sender">>

\* ---- C6

\* C6: a handler that has returned has sent exactly one reply.
C6_OneReply == Finished => h.replies = 1

\* ---- C7

C7_State ==
    /\ h.polls <= PollAttempts
    /\ Len(h.posted) = 1
    /\ pc \in {"poll", "reply", "done"}
    /\ pc = "poll" => (h.polls < PollAttempts /\ ~h.seen)
    /\ pc = "reply" => (h.seen \/ h.polls = PollAttempts)
    /\ h.seen <=> h.new_sender_balance # <<>>
    /\ pc # "done" => h.replies = 0
    /\ Finished =>
          /\ h.replies = 1
          /\ IF h.seen
             THEN /\ h.outcome = "Confirmed"
                  /\ h.shown = format_amount(h.new_sender_balance[1])
             ELSE /\ h.outcome = "Submitted"
                  /\ h.polls = PollAttempts

\* what a step does to a /pay whose POST was accepted and that has not
\* returned: the POST stays the only one, a step of the loop is one more
\* fetch, and the step after the loop is the reply
C7_Progress ==
    (PayFrame /\ Accepted /\ ~Finished) =>
       /\ h'.cmd = "pay" /\ h'.posted = h.posted /\ h'.status = h.status
       /\ (pc = "poll" /\ h' # h) => (h'.polls = h.polls + 1 /\ pc' \in {"poll", "reply"})
       /\ (pc = "reply" /\ h' # h) => pc' = "done"
       /\ h' = h => pc' = pc

\* C7: once the POST of a /pay was accepted, the handler fetches the sheet at
\* most 7 more times, each step of the loop using one of them up, POSTs
\* nothing more, and ends with one success reply: the confirmed message with
\* the re-read balance if some re-fetch held the sender's row, else, after all
\* 7 fetches, the message that the balance will update shortly.
C7_Confirmation ==
    [][((PayFrame /\ Accepted)' => C7_State') /\ C7_Progress]_vars

C7_Witness ==
    /\ PayFrame /\ Accepted /\ Finished
    /\ h.outcome = "Submitted" /\ h.polls = PollAttempts /\ h.replies = 1

\* ---- C8

\* the first row of the fetched sheet whose username cell normalizes to key
FirstRow(rows, key) ==
    rows[CHOOSE i \in 1..Len(rows) :
            /\ normalize_username(rows[i].u) = key
            /\ \A j \in 1..(i - 1) : normalize_username(rows[j].u) # key]

\* C8: the balance a handler uses for the sender is the balance of the first
\* row, in row order, whose username cell normalizes to the sender's key.
C8_FirstMatch ==
    ((h.cmd = "balance" /\ h.outcome = "Balance")
     \/ (PayFrame /\ InSeq("balance", h.stages)))
       => h.sender_bal =
             parse_balance(BalanceCell(FirstRow(h.snap.rows, h.sender), h.snap.col_balance))

\* ---- C9

NormName(i) == _norm(ItemName(prices[i]))

\* the table holds a row named exactly qn and another whose name contains qn
ExactAndSubstring(qn) ==
    \E i, j \in 1..Len(prices) :
        /\ NormName(i) = qn
        /\ NormName(j) # qn /\ Contains(NormName(j), qn)

FirstNamed(qn) ==
    prices[CHOOSE i \in 1..Len(prices) :
              NormName(i) = qn /\ \A j \in 1..(i - 1) : NormName(j) # qn]

PriceLooked == h.cmd = "price" /\ Finished /\ h.outcome \in {"Exact", "Suggest", "NotFound"}

\* C9, as claimed: with an item named exactly like the normalized query and
\* another whose name contains it, the reply is the exact row, also when the
\* query is a key of the alias table.
C9_Original ==
    (PriceLooked /\ ExactAndSubstring(_norm(h.query)))
       => (h.outcome = "Exact" /\ h.lines = <<FirstNamed(_norm(h.query))>>)

\* C9, amended: the same with the query taken after alias substitution: a
\* query that is a key of the alias table is looked up as its alias target.
C9_ExactPreferred ==
    (PriceLooked /\ ExactAndSubstring(Aliased(_norm(h.query))))
       => (h.outcome = "Exact" /\ h.lines = <<FirstNamed(Aliased(_norm(h.query)))>>
           /\ h.replies = 1)

\* the exact row comes after the row that merely contains the query
C9_Witness ==
    /\ PriceLooked /\ h.outcome = "Exact"
    /\ \E i, j \in 1..Len(prices) :
          /\ j < i
          /\ NormName(i) = Aliased(_norm(h.query)) /\ h.lines = <<prices[i]>>
          /\ NormName(j) # NormName(i) /\ Contains(NormName(j), NormName(i))

\* ---- C10

RECURSIVE Unsettled(_, _)
Unsettled(ts, key) ==
    IF ts = <<>> THEN 0
    ELSE (IF Head(ts).sender = key THEN Head(ts).amount ELSE 0) + Unsettled(Tail(ts), key)

Senders == {pending[i].sender : i \in 1..Len(pending)}

\* the balance the sheet holds for key now
LedgerBalance(key) ==
    parse_balance(UsersGet(users_by_username(ledger), key)[1].bal)

HasRow(key) == key \in DOMAIN users_by_username(ledger)

\* every unsettled transfer of key goes to somebody else
PaysOthers(key) ==
    \A i \in 1..Len(pending) : pending[i].sender = key => pending[i].recipient # key

====
